---- MODULE Spec2Model ----
(***************************************************************************)
(* A model of the envsubst crate (src/src/lib.rs): substitute,             *)
(* is_templated, validate_vars and the private validate.                   *)
(*                                                                         *)
(* Text is a sequence of one-character strings.  A HashMap<String,String>  *)
(* is a function from its keys to their values; the order in which a       *)
(* `for (k, v) in variables` loop visits the entries is not fixed by the   *)
(* program, so every call draws it from all orders of the keys.            *)
(***************************************************************************)
EXTENDS Integers, Sequences, FiniteSets

\* ---------------------------------------------------------------- bounds
\* A template is the concatenation of at most MaxPieces pieces.
MaxPieces == 3
\* A mapping holds at most MaxVars entries.
MaxVars == 2

\* ---------------------------------------------------------------- inputs
Chars == {"$", "{", "}", "a"}

\* A piece is one character, the opening delimiter, or the placeholder of
\* the name a.
Pieces ==
    {<<c>> : c \in Chars} \cup {<<"$", "{">>, <<"$", "{", "a", "}">>}

RECURSIVE Concat(_)
Concat(ps) == IF ps = <<>> THEN <<>> ELSE Head(ps) \o Concat(Tail(ps))

Templates ==
    {Concat(ps) : ps \in UNION {[1..n -> Pieces] : n \in 0..MaxPieces}}

\* The maps M with at most MaxVars entries, keys in K and values in V.
MapsOver(K, V) ==
    UNION {[D -> V] : D \in {S \in SUBSET K : Cardinality(S) <= MaxVars}}

\* Inputs of the first kind: any template, and a map whose names include
\* the empty one, a name that extends another and a name with a forbidden
\* character, with valid values.
KeyNames == {<<>>, <<"a">>, <<"a", "a">>, <<"a", "}">>}
ValNames == {<<>>, <<"a">>}
Mappings == MapsOver(KeyNames, ValNames)

\* Inputs of the second kind: a template of at most one piece, and a map
\* whose keys and values are any text of at most one character or a whole
\* placeholder.
ShortTemplates == {<<>>} \cup Pieces
AnyNames == {<<>>} \cup {<<c>> : c \in Chars} \cup {<<"$", "{", "a", "}">>}
AnyMappings == MapsOver(AnyNames, AnyNames)

\* The orders in which a loop over the map M may visit its keys.
Orders(M) ==
    LET K == DOMAIN M
        n == Cardinality(K)
    IN  {o \in [1..n -> K] : \A i, j \in 1..n : o[i] = o[j] => i = j}

\* ------------------------------------------------------- library helpers
\* str::find: the 0-based index of the first match, scanning from the
\* left; None is the empty set, Some(i) is {i}.
RECURSIVE FindFrom(_, _, _)
FindFrom(s, pat, i) ==
    IF i + Len(pat) > Len(s) THEN {}
    ELSE IF SubSeq(s, i + 1, i + Len(pat)) = pat THEN {i}
    ELSE FindFrom(s, pat, i + 1)

Find(s, pat) == FindFrom(s, pat, 0)

\* str::contains
Contains(s, pat) == Find(s, pat) # {}

\* Variant of Replace: only the first match is replaced (str::replacen
\* with a count of one).
RECURSIVE ReplaceFirst(_, _, _)
ReplaceFirst(s, from, to) ==
    IF Len(s) < Len(from) THEN s
    ELSE IF SubSeq(s, 1, Len(from)) = from
         THEN to \o SubSeq(s, Len(from) + 1, Len(s))
         ELSE <<Head(s)>> \o ReplaceFirst(Tail(s), from, to)

\* Variant of Replace: the text is scanned again after every replacement,
\* so a token completed by a replacement is replaced too.
RECURSIVE ReplaceRescan(_, _, _)
ReplaceRescan(s, from, to) ==
    IF Find(s, from) = {} THEN s
    ELSE ReplaceRescan(ReplaceFirst(s, from, to), from, to)

\* str::replace with a non-empty pattern: matches are taken left to
\* right, each match is skipped once replaced, and the replacement text is
\* copied to the result without being scanned.
RECURSIVE Replace(_, _, _)
Replace(s, from, to) ==
    IF Len(s) < Len(from) THEN s
    ELSE IF SubSeq(s, 1, Len(from)) = from
         THEN to \o Replace(SubSeq(s, Len(from) + 1, Len(s)), from, to)
         ELSE <<Head(s)>> \o Replace(Tail(s), from, to)

\* ------------------------------------------------------------- results
\* Result<String, Error> and Result<(), Error>; Ok(()) carries no text.
Ok(text) == [tag |-> "Ok", text |-> text, err |-> <<>>]
Err(msg) == [tag |-> "Err", text |-> <<>>, err |-> msg]
NoResult == [tag |-> "None", text |-> <<>>, err |-> <<>>]

\* format!("variable {} '{}' contains forbidden character '{}'", ...)
ErrMsg(kind, value, c) ==
    <<"variable ", kind, " '">> \o value
        \o <<"' contains forbidden character '">> \o c \o <<"'">>

\* ------------------------------------------------------------ validate
forbidden == << <<"$">>, <<"{">>, <<"}">> >>

\* Variant of validate: `}` is missing from the forbidden list.
validate_skips_close(value, kind) ==
    LET hits == {i \in DOMAIN forbidden :
                   forbidden[i] # <<"}">> /\ Contains(value, forbidden[i])}
    IN  IF hits = {} THEN Ok(<<>>)
        ELSE LET first == CHOOSE i \in hits : \A j \in hits : i <= j
             IN  Err(ErrMsg(kind, value, forbidden[first]))

\* Variant of validate: the message names the first character of the
\* forbidden list, not the one that was found.
validate_names_dollar(value, kind) ==
    LET hits == {i \in DOMAIN forbidden : Contains(value, forbidden[i])}
    IN  IF hits = {} THEN Ok(<<>>)
        ELSE Err(ErrMsg(kind, value, Head(forbidden)))

validate(value, kind) ==
    LET hits == {i \in DOMAIN forbidden : Contains(value, forbidden[i])}
    IN  IF hits = {} THEN Ok(<<>>)
        ELSE LET first == CHOOSE i \in hits : \A j \in hits : i <= j
             IN  Err(ErrMsg(kind, value, forbidden[first]))

\* ------------------------------------------------------- validate_vars
\* The loop of validate_vars over the entries in the order o, from
\* position i on.
RECURSIVE ValidateFrom(_, _, _)
ValidateFrom(M, o, i) ==
    IF i > Len(o) THEN Ok(<<>>)
    ELSE LET rk == validate(o[i], "key")
             rv == validate(M[o[i]], "value")
         IN  IF rk.tag = "Err" THEN rk
             ELSE IF rv.tag = "Err" THEN rv
             ELSE ValidateFrom(M, o, i + 1)

validate_vars(M, o) == ValidateFrom(M, o, 1)

\* -------------------------------------------------------- is_templated
\* Variant of is_templated: any `}` after the first `${` counts.
is_templated_any_pair(input) ==
    LET start == Find(input, <<"$", "{">>)
    IN  \E s \in start :
            \E e \in (s + 1)..(Len(input) - 1) : input[e + 1] = "}"

\* Variant of is_templated: both delimiters present, in any order.
is_templated_unordered(input) ==
    LET start == Find(input, <<"$", "{">>)
        end   == Find(input, <<"}">>)
    IN  start # {} /\ end # {}

is_templated(input) ==
    LET start == Find(input, <<"$", "{">>)
        end   == Find(input, <<"}">>)
    IN  \E s \in start, e \in end : s < e

\* ---------------------------------------------------------- substitute
\* Variant of Token: the braces are left out ($name).
Token_unbraced(k) == <<"$">> \o k

\* format!("${{{}}}", k)
Token(k) == <<"$", "{">> \o k \o <<"}">>

\* Variant of SubstEntry: the value is not validated.
SubstEntry_key_only(out, k, v) ==
    LET rk == validate(k, "key")
    IN  IF rk.tag = "Err" THEN [res |-> rk, output |-> out]
        ELSE [res |-> Ok(<<>>),
              output |-> Replace(out, <<"$", "{">> \o k \o <<"}">>, v)]

\* Variant of SubstEntry: the replacement is applied to the buffer before
\* the entry is validated.
SubstEntry_replace_first(out, k, v) ==
    LET rk == validate(k, "key")
        rv == validate(v, "value")
        new == Replace(out, <<"$", "{">> \o k \o <<"}">>, v)
    IN  IF rk.tag = "Err" THEN [res |-> rk, output |-> new]
        ELSE IF rv.tag = "Err" THEN [res |-> rv, output |-> new]
        ELSE [res |-> Ok(<<>>), output |-> new]

\* One iteration of the loop of substitute on the entry (k, v): the early
\* return of `?` (res is the error, the buffer is untouched) or the new
\* buffer.
SubstEntry(out, k, v) ==
    LET rk == validate(k, "key")
        rv == validate(v, "value")
    IN  IF rk.tag = "Err" THEN [res |-> rk, output |-> out]
        ELSE IF rv.tag = "Err" THEN [res |-> rv, output |-> out]
        ELSE [res |-> Ok(<<>>), output |-> Replace(out, Token(k), v)]

\* The loop of substitute over the entries in the order o, from position
\* i on, and the final Ok(output).
RECURSIVE SubstFrom(_, _, _, _)
SubstFrom(out, M, o, i) ==
    IF i > Len(o) THEN Ok(out)
    ELSE LET step == SubstEntry(out, o[i], M[o[i]])
         IN  IF step.res.tag = "Err" THEN step.res
             ELSE SubstFrom(step.output, M, o, i + 1)

\* substitute(template, variables) when the map is visited in the order o.
substitute(T, M, o) ==
    IF DOMAIN M = {} THEN Ok(T) ELSE SubstFrom(T, M, o, 1)

\* --------------------------------------------------------------- state
VARIABLES
    template,   \* the template the caller holds
    variables,  \* the caller's map
    pc,         \* "ready", "loop" (inside substitute's loop), "returned"
    op,         \* the function called last
    order,      \* the keys the running loop has taken from the map, in order
    idx,        \* entries the loop of substitute has replaced
    output,     \* substitute's local buffer `output`
    result,     \* the Result returned by substitute or validate_vars
    input,      \* the argument of the call of is_templated
    templated   \* what is_templated returned: {} before the call

vars == <<template, variables, pc, op, order, idx, output, result, input,
          templated>>

Range(f) == {f[i] : i \in DOMAIN f}

Init ==
    /\ \/ template \in Templates /\ variables \in Mappings
       \/ template \in ShortTemplates /\ variables \in AnyMappings
    /\ pc = "ready"
    /\ op = "none"
    /\ order = <<>>
    /\ idx = 0
    /\ output = <<>>
    /\ result = NoResult
    /\ input = <<>>
    /\ templated = {}

\* substitute, lines 47-50: the buffer, the fast path of the empty map,
\* and the start of the loop.
SubstituteEnter ==
    /\ pc = "ready"
    /\ op' = "substitute"
    /\ output' = template
    /\ IF DOMAIN variables = {}
       THEN /\ result' = Ok(template)
            /\ pc' = "returned"
       ELSE /\ pc' = "loop"
            /\ result' = result
    /\ UNCHANGED <<template, variables, order, idx, input, templated>>

\* substitute, lines 52-58: one iteration of the loop, on whichever entry
\* the map's iterator yields next.
SubstituteIter ==
    /\ pc = "loop"
    /\ \E k \in DOMAIN variables \ Range(order) :
          LET step == SubstEntry(output, k, variables[k])
          IN  /\ order' = Append(order, k)
              /\ output' = step.output
              /\ IF step.res.tag = "Err"
                 THEN /\ result' = step.res
                      /\ pc' = "returned"
                      /\ idx' = idx
                 ELSE /\ idx' = idx + 1
                      /\ UNCHANGED <<result, pc>>
    /\ UNCHANGED <<template, variables, op, input, templated>>

\* substitute, line 60: the iterator is exhausted.
SubstituteReturn ==
    /\ pc = "loop"
    /\ Range(order) = DOMAIN variables
    /\ result' = Ok(output)
    /\ pc' = "returned"
    /\ UNCHANGED <<template, variables, op, order, idx, output, input,
                   templated>>

\* The entries the loop of validate_vars takes when the map's iterator
\* yields them in the order o: all of them, or those up to the first one
\* that fails.
Taken(M, o) ==
    LET bad == {i \in 1..Len(o) :
                  \/ validate(o[i], "key").tag = "Err"
                  \/ validate(M[o[i]], "value").tag = "Err"}
    IN  IF bad = {} THEN o
        ELSE SubSeq(o, 1, CHOOSE i \in bad : \A j \in bad : i <= j)

\* validate_vars, lines 82-88.
ValidateVars ==
    /\ pc = "ready"
    /\ op' = "validate_vars"
    /\ \E o \in Orders(variables) :
          /\ order' = Taken(variables, o)
          /\ result' = validate_vars(variables, o)
    /\ pc' = "returned"
    /\ UNCHANGED <<template, variables, idx, output, input, templated>>

\* is_templated, lines 64-75, called on the template, or on the text a
\* call of substitute returned (as in the crate's example).
IsTemplated ==
    /\ templated = {}
    /\ \/ /\ pc = "ready"
          /\ input' = template
       \/ /\ pc = "returned"
          /\ op = "substitute"
          /\ result.tag = "Ok"
          /\ input' = result.text
    /\ templated' = {is_templated(input')}
    /\ op' = "is_templated"
    /\ pc' = "returned"
    /\ UNCHANGED <<template, variables, order, idx, output, result>>

Next ==
    \/ SubstituteEnter
    \/ SubstituteIter
    \/ SubstituteReturn
    \/ ValidateVars
    \/ IsTemplated

Spec == Init /\ [][Next]_vars

\* ------------------------------------------------ vocabulary of the claims
ForbiddenChars == {"$", "{", "}"}

HasForbidden(s) == \E i \in 1..Len(s) : s[i] \in ForbiddenChars

ValidMapping(M) ==
    \A k \in DOMAIN M : ~HasForbidden(k) /\ ~HasForbidden(M[k])

\* pat occurs in s at the 0-based position i.
OccursAt(s, pat, i) ==
    /\ i >= 0
    /\ i + Len(pat) <= Len(s)
    /\ \A j \in 1..Len(pat) : s[i + j] = pat[j]

Positions(s, pat) == {i \in 0..Len(s) : OccursAt(s, pat, i)}

Least(S) == CHOOSE i \in S : \A j \in S : i <= j

OpenDelim == <<"$", "{">>
CloseDelim == <<"}">>

SubstituteReturned == pc = "returned" /\ op = "substitute"

\* ------------------------------------------------------------------ C1
\* C1: for a valid mapping, the text substitute returns does not depend
\* on the order in which the entries are visited: the result of the run
\* equals the result under every other order of the same map.
C1_OrderIndependent ==
    (SubstituteReturned /\ ValidMapping(variables)) =>
        \A o \in Orders(variables) :
            substitute(template, variables, o) = result

\* ------------------------------------------------------------------ C2
\* C2: with a non-empty mapping, substitute returns an error, carrying no
\* output text, exactly when some key or value holds a forbidden
\* character, whatever the template and the visiting order; so it
\* succeeds exactly when validate_vars succeeds on the same map.
C2_ErrorIffInvalid ==
    (SubstituteReturned /\ DOMAIN variables # {}) =>
        /\ result.tag \in {"Ok", "Err"}
        /\ (result.tag = "Err") <=> ~ValidMapping(variables)
        /\ result.tag = "Err" => result.text = <<>>
        /\ \A o \in Orders(variables) :
              (validate_vars(variables, o).tag = "Ok") <=> (result.tag = "Ok")

\* An error returned for an entry visited second, whose token is not in
\* the template.
C2_Witness ==
    /\ SubstituteReturned
    /\ result.tag = "Err"
    /\ idx = 1
    /\ ~Contains(template, Token(order[idx + 1]))
    /\ Contains(template, Token(order[1]))

\* ------------------------------------------------------------------ C3
\* C3: validate_vars succeeds exactly when no key and no value holds `$`,
\* `{` or `}`; with an invalid entry it fails under every visiting order,
\* and it succeeds on the empty map.
C3_ValidateVarsIff ==
    (pc = "returned" /\ op = "validate_vars") =>
        /\ result.tag \in {"Ok", "Err"}
        /\ (result.tag = "Ok") <=> ValidMapping(variables)

\* validate_vars failed on a map whose first visited entry is valid.
C3_Witness ==
    /\ pc = "returned"
    /\ op = "validate_vars"
    /\ result.tag = "Err"
    /\ Len(order) > 1
    /\ ~HasForbidden(order[1])
    /\ ~HasForbidden(variables[order[1]])

TokenOf(k) == <<"$", "{">> \o k \o <<"}">>

\* T with the text at every position of Occ (0-based starts of tok)
\* replaced by v, position by position: a start yields v, the rest of an
\* occurrence yields nothing, every other character yields itself.
RECURSIVE Spliced(_, _, _, _, _)
Spliced(T, Occ, n, v, i) ==
    IF i > Len(T) THEN <<>>
    ELSE (IF (i - 1) \in Occ THEN v
          ELSE IF \E j \in Occ : j + 1 < i /\ i <= j + n THEN <<>>
          ELSE <<T[i]>>) \o Spliced(T, Occ, n, v, i + 1)

\* C6: with a valid single entry (k, v), substitute returns the template
\* with every occurrence of `${k}` replaced by v and every other character
\* kept in place and in order; the occurrences do not overlap, all n of
\* them are replaced, and replacement text is not scanned again.
C6_SingleEntry ==
    (SubstituteReturned /\ Cardinality(DOMAIN variables) = 1
        /\ ValidMapping(variables)) =>
        LET k == CHOOSE x \in DOMAIN variables : TRUE
            v == variables[k]
            tok == TokenOf(k)
            Occ == Positions(template, tok)
            n == Cardinality(Occ)
        IN  /\ \A i, j \in Occ : i < j => i + Len(tok) <= j
            /\ result = Ok(Spliced(template, Occ, Len(tok), v, 1))
            /\ Len(result.text) + n * Len(tok) = Len(template) + n * Len(v)

\* A single valid entry whose token occurs more than once.
C6_Witness ==
    /\ SubstituteReturned
    /\ Cardinality(DOMAIN variables) = 1
    /\ ValidMapping(variables)
    /\ \E k \in DOMAIN variables :
          Cardinality(Positions(template, TokenOf(k))) > 1

\* ------------------------------------------------------------------ C7
\* C7: with a valid mapping (the empty one included) none of whose tokens
\* occurs in the template, substitute succeeds and returns the template
\* unchanged, malformed markers and unknown placeholders included.
C7_NoTokenUnchanged ==
    (SubstituteReturned /\ ValidMapping(variables)
        /\ \A k \in DOMAIN variables : Positions(template, TokenOf(k)) = {})
    => result = Ok(template)

\* A non-empty valid mapping and a template that holds `${` but no token
\* of the mapping.
C7_Witness ==
    /\ SubstituteReturned
    /\ ValidMapping(variables)
    /\ Cardinality(DOMAIN variables) > 1
    /\ Positions(template, OpenDelim) # {}
    /\ \A k \in DOMAIN variables : Positions(template, TokenOf(k)) = {}

\* ------------------------------------------------------------------ C8
\* The message msg names the role r, the text t and the character c.
Names(msg, r, t, c) ==
    msg = <<"variable ", r, " '">> \o t
            \o <<"' contains forbidden character '", c, "'">>

\* C8: an error of validate_vars or substitute names a role, a text and a
\* character: the text is a key of the map when the role is key and a
\* value of the map when the role is value, and the character is one of
\* `$`, `{`, `}` and occurs in the text.
C8_ErrorNames ==
    (pc = "returned" /\ op \in {"substitute", "validate_vars"}
        /\ result.tag = "Err") =>
        \E c \in ForbiddenChars, k \in DOMAIN variables :
            \/ /\ Names(result.err, "key", k, c)
               /\ \E i \in 1..Len(k) : k[i] = c
            \/ /\ Names(result.err, "value", variables[k], c)
               /\ \E i \in 1..Len(variables[k]) : variables[k][i] = c

\* substitute failed on a value, naming a character other than `$`.
C8_Witness ==
    /\ SubstituteReturned
    /\ result.tag = "Err"
    /\ \E k \in DOMAIN variables : Names(result.err, "value", variables[k], "{")

\* ------------------------------------------------------------------ C9
\* T, from position i on, is literal text free of forbidden characters
\* interleaved with tokens of names in K.
RECURSIVE BuiltFrom(_, _, _)
BuiltFrom(T, K, i) ==
    \/ i > Len(T)
    \/ i <= Len(T) /\ T[i] \notin ForbiddenChars /\ BuiltFrom(T, K, i + 1)
    \/ \E k \in K : /\ OccursAt(T, TokenOf(k), i - 1)
                    /\ BuiltFrom(T, K, i + Len(TokenOf(k)))

Built(T, M) ==
    /\ BuiltFrom(T, DOMAIN M, 1)
    /\ \E k \in DOMAIN M : Positions(T, TokenOf(k)) # {}

\* C9: for a valid mapping and a template made of literal text free of
\* forbidden characters and at least one token of a key of the mapping,
\* is_templated of the template is true, substitute succeeds, and the
\* text it returns holds no forbidden character and is not templated.
C9_RoundTrip ==
    ((templated # {} \/ SubstituteReturned)
        /\ ValidMapping(variables) /\ Built(template, variables)) =>
        /\ (templated # {} /\ result.tag = "None")
              => (input = template /\ templated = {TRUE})
        /\ SubstituteReturned
              => (result.tag = "Ok" /\ ~HasForbidden(result.text))
        /\ (templated # {} /\ result.tag = "Ok")
              => (input = result.text /\ templated = {FALSE})

\* is_templated has answered on the text substitute returned for such a
\* template, with two entries in the map.
C9_Witness ==
    /\ Built(template, variables)
    /\ ValidMapping(variables)
    /\ Cardinality(DOMAIN variables) > 1
    /\ templated # {}
    /\ result.tag = "Ok"
    /\ input # <<>>

\* ----------------------------------------------------------------- C10
ValidEntry(k) == ~HasForbidden(k) /\ ~HasForbidden(variables[k])

====
